---- MODULE Spec2Model ----
(***************************************************************************)
(* Model of the InsightAI Python analysis service                          *)
(* (python-service/main.py and python-service/services/*.py).              *)
(*                                                                         *)
(* Text is a sequence of one-character strings, so that trimming,          *)
(* upper-casing, prefix tests and regular-expression matches are computed  *)
(* character by character as the Python code computes them.                *)
(***************************************************************************)
EXTENDS Integers, Sequences, FiniteSets, TLC

VARIABLES
    pc,          \* position of the running call / request handler
    question,    \* AnalyzeRequest.question
    db,          \* the table "data" stored behind AnalyzeRequest.db_path
    result,      \* the result dict built by analyze_data
    status,      \* "running", then the HTTP status of the response: 200, 400 or 500
    executed,    \* query strings handed to sqlite3's conn.execute
    log,         \* steps of analyze_data entered so far, in order
    arg,         \* argument(s) of the service function under call
    ret          \* its return value

vars == <<pc, question, db, result, status, executed, log, arg, ret>>

NoValue == "-"

(***************************************************************************)
(* Characters and Python str methods                                       *)
(***************************************************************************)
LowerCase == <<"a","b","c","d","e","f","g","h","i","j","k","l","m",
               "n","o","p","q","r","s","t","u","v","w","x","y","z">>
UpperCase == <<"A","B","C","D","E","F","G","H","I","J","K","L","M",
               "N","O","P","Q","R","S","T","U","V","W","X","Y","Z">>
Digits == <<"0","1","2","3","4","5","6","7","8","9">>

Range(s) == {s[i] : i \in DOMAIN s}

IndexOf(s, c) == CHOOSE i \in DOMAIN s : s[i] = c

IsSpace(c) == c \in {" ", "\t", "\n", "\r"}
IsDigit(c) == c \in Range(Digits)
IsAlpha(c) == c \in Range(LowerCase) \cup Range(UpperCase)
\* \w of Python's re module
IsWordChar(c) == IsAlpha(c) \/ IsDigit(c) \/ c = "_"

\* str.upper(), str.lower()
UpperChar(c) == IF c \in Range(LowerCase) THEN UpperCase[IndexOf(LowerCase, c)] ELSE c
LowerChar(c) == IF c \in Range(UpperCase) THEN LowerCase[IndexOf(UpperCase, c)] ELSE c
StrUpper(s) == [i \in DOMAIN s |-> UpperChar(s[i])]
StrLower(s) == [i \in DOMAIN s |-> LowerChar(s[i])]

\* str.strip()
RECURSIVE LStrip(_)
LStrip(s) == IF s # <<>> /\ IsSpace(Head(s)) THEN LStrip(Tail(s)) ELSE s
RECURSIVE RStrip(_)
RStrip(s) == IF s # <<>> /\ IsSpace(s[Len(s)]) THEN RStrip(SubSeq(s, 1, Len(s) - 1)) ELSE s
StrStrip(s) == RStrip(LStrip(s))

\* str.startswith(p)
StartsWith(s, p) == Len(p) <= Len(s) /\ SubSeq(s, 1, Len(p)) = p

\* s[i:] begins with p (i is 1-based)
OccursAt(s, p, i) == i + Len(p) - 1 <= Len(s) /\ SubSeq(s, i, i + Len(p) - 1) = p

\* p in s
Contains(s, p) == \E i \in 1..(Len(s) + 1) : OccursAt(s, p, i)

\* str.replace(a, b) for single characters
StrReplace(s, a, b) == [i \in DOMAIN s |-> IF s[i] = a THEN b ELSE s[i]]

\* Concatenation of a sequence of texts
RECURSIVE Concat(_)
Concat(ss) == IF ss = <<>> THEN <<>> ELSE Head(ss) \o Concat(Tail(ss))

\* re.search(r'\bKW\b', s) for a keyword KW made of word characters
WordSearch(s, kw) ==
    \E i \in 1..Len(s) :
        /\ OccursAt(s, kw, i)
        /\ (i = 1 \/ ~IsWordChar(s[i - 1]))
        /\ (i + Len(kw) > Len(s) \/ ~IsWordChar(s[i + Len(kw)]))

(***************************************************************************)
(* services/database.py                                                    *)
(***************************************************************************)
KW_DROP     == <<"D","R","O","P">>
KW_DELETE   == <<"D","E","L","E","T","E">>
KW_UPDATE   == <<"U","P","D","A","T","E">>
KW_INSERT   == <<"I","N","S","E","R","T">>
KW_ALTER    == <<"A","L","T","E","R">>
KW_CREATE   == <<"C","R","E","A","T","E">>
KW_TRUNCATE == <<"T","R","U","N","C","A","T","E">>
KW_EXEC     == <<"E","X","E","C">>
KW_EXECUTE  == <<"E","X","E","C","U","T","E">>
KW_SELECT   == <<"S","E","L","E","C","T">>
KW_WITH     == <<"W","I","T","H">>

dangerous_keywords ==
    <<KW_DROP, KW_DELETE, KW_UPDATE, KW_INSERT, KW_ALTER, KW_CREATE,
      KW_TRUNCATE, KW_EXEC, KW_EXECUTE>>

\* A classifier that looks for the keywords as plain substrings
validate_sql_substring(sql) ==
    LET sql_upper == StrUpper(StrStrip(sql))
    IN  /\ ~\E k \in DOMAIN dangerous_keywords :
               Contains(sql_upper, dangerous_keywords[k])
        /\ (StartsWith(sql_upper, KW_SELECT) \/ StartsWith(sql_upper, KW_WITH))

validate_sql(sql) ==
    LET sql_upper == StrUpper(StrStrip(sql))
    IN  /\ ~\E k \in DOMAIN dangerous_keywords :
               WordSearch(sql_upper, dangerous_keywords[k])
        /\ (StartsWith(sql_upper, KW_SELECT) \/ StartsWith(sql_upper, KW_WITH))

(***************************************************************************)
(* Query strings: every concatenation of at most MaxFrags fragments        *)
(***************************************************************************)
MaxFrags == 3

Fragments ==
    << <<"s","e","l","e","c","t">>,
       <<"W","i","t","h">>,
       <<" ">>,
       <<"_">>,
       <<"a">>,
       <<"1">>,
       <<"c","r","e","a","t","e","d","_","a","t">>,
       <<"d","r","o","p">>,
       <<"D","e","l","e","t","e">>,
       <<"u","p","d","a","t","e">>,
       <<"i","n","s","e","r","t">>,
       <<"a","l","t","e","r">>,
       <<"c","r","e","a","t","e">>,
       <<"t","r","u","n","c","a","t","e">>,
       <<"e","x","e","c">>,
       <<"E","X","E","C","U","T","E">> >>

QueryOf(fs) == Concat([i \in DOMAIN fs |-> Fragments[fs[i]]])

(***************************************************************************)
(* Calls of a single service function: arg holds the input, ret the output *)
(***************************************************************************)
CallInit(a) ==
    /\ pc = "call"
    /\ arg = a
    /\ ret = NoValue
    /\ question = <<>>
    /\ db = NoValue
    /\ result = NoValue
    /\ status = "idle"
    /\ executed = {}
    /\ log = <<>>

Return(v) ==
    /\ pc' = "done"
    /\ ret' = v
    /\ UNCHANGED <<arg, question, db, result, status, executed, log>>

\* validate_sql(sql) called on any query string
InitClassify ==
    \E k \in 0..MaxFrags : \E fs \in [1..k -> DOMAIN Fragments] : CallInit(QueryOf(fs))

ValidateSqlCall ==
    /\ pc = "call"
    /\ Return(validate_sql(arg))

NextClassify == ValidateSqlCall

SpecClassify == InitClassify /\ [][NextClassify]_vars

\* The maximal runs of word characters of s
TokenAt(s, i, j) ==
    /\ i <= j
    /\ \A k \in i..j : IsWordChar(s[k])
    /\ (i = 1 \/ ~IsWordChar(s[i - 1]))
    /\ (j = Len(s) \/ ~IsWordChar(s[j + 1]))

Tokens(s) == {SubSeq(s, i, j) : <<i, j>> \in {p \in (DOMAIN s) \X (DOMAIN s) : TokenAt(s, p[1], p[2])}}

Normalized(q) == StrUpper(StrStrip(q))

SafeByTokens(q) ==
    /\ (StartsWith(Normalized(q), KW_SELECT) \/ StartsWith(Normalized(q), KW_WITH))
    /\ Tokens(Normalized(q)) \cap Range(dangerous_keywords) = {}

\* C2: validate_sql(q) is true exactly when the trimmed, upper-cased q begins
\* with SELECT or WITH and none of the nine keywords is one of its whole
\* tokens (maximal runs of letters, digits and underscores); a keyword inside
\* an identifier such as created_at does not reject.
C2_ClassifyIffTokens ==
    pc = "done" => (ret = SafeByTokens(arg))

CreatedAt == <<"c","r","e","a","t","e","d","_","a","t">>

\* C2 witness: a query that mentions created_at has been classified safe.
C2_Witness ==
    /\ pc = "done"
    /\ ret = TRUE
    /\ Contains(arg, CreatedAt)
    /\ StartsWith(Normalized(arg), KW_SELECT)

(***************************************************************************)
(* Tables (pandas DataFrames)                                              *)
(*                                                                         *)
(* A table is [nrows, cols]; a column is [name, numeric, vals].  A cell is *)
(* <<>> when missing, <<n>> for the integer n in a numeric column, and a   *)
(* non-empty text in a non-numeric column.                                 *)
(***************************************************************************)
NA == <<>>

IsNA(c) == c = NA

Col(name, numeric, vals) == [name |-> name, numeric |-> numeric, vals |-> vals]

Table(n, cols) == [nrows |-> n, cols |-> cols]

\* df.empty
DfEmpty(df) == df.nrows = 0 \/ Len(df.cols) = 0

\* Subsequence of s at the indices satisfying Keep
RECURSIVE SelectIdx(_, _, _)
SelectIdx(s, keep, i) ==
    IF i > Len(s) THEN <<>>
    ELSE (IF i \in keep THEN <<s[i]>> ELSE <<>>) \o SelectIdx(s, keep, i + 1)

\* df.select_dtypes(include='number').columns.tolist(), as column positions
NumCols(df) == SelectIdx([i \in DOMAIN df.cols |-> i], {i \in DOMAIN df.cols : df.cols[i].numeric}, 1)

\* [c for c in cols if c not in num_cols], as column positions
NonNumCols(df) == SelectIdx([i \in DOMAIN df.cols |-> i], {i \in DOMAIN df.cols : ~df.cols[i].numeric}, 1)

\* series.dropna()
DropNA(vals) == SelectIdx(vals, {i \in DOMAIN vals : ~IsNA(vals[i])}, 1)

\* series.head(n)
SeqHead(s, n) == SubSeq(s, 1, IF Len(s) < n THEN Len(s) ELSE n)

\* str(n) for an integer n
RECURSIVE NatStr(_)
NatStr(n) == IF n < 10 THEN <<Digits[n + 1]>> ELSE NatStr(n \div 10) \o <<Digits[(n % 10) + 1]>>
IntStr(n) == IF n < 0 THEN <<"-">> \o NatStr(-n) ELSE NatStr(n)

\* A numeric column holding a missing value is float64, otherwise int64
IsFloatCol(col) == col.numeric /\ \E i \in DOMAIN col.vals : IsNA(col.vals[i])

\* one cell of series.astype(str)
CellStr(col, c) ==
    IF col.numeric
    THEN IF IsNA(c) THEN <<"n","a","n">>
         ELSE IF IsFloatCol(col) THEN IntStr(c[1]) \o <<".","0">>
         ELSE IntStr(c[1])
    ELSE IF IsNA(c) THEN <<"N","o","n","e">> ELSE c

\* df[col].astype(str)
AsTypeStr(col) == [i \in DOMAIN col.vals |-> CellStr(col, col.vals[i])]

\* s[i..i+n-1] are n digits
DigitsAt(s, i, n) == i + n - 1 <= Len(s) /\ \A k \in i..(i + n - 1) : IsDigit(s[k])

\* s[i] is one of - /
SepAt(s, i) == i <= Len(s) /\ s[i] \in {"-", "/"}

\* the end of the text, or the newline that ends it ($)
AtEnd(s, i) == i = Len(s) + 1 \/ (i = Len(s) /\ s[i] = "\n")

(***************************************************************************)
(* services/charts.py                                                      *)
(***************************************************************************)
MonthNames ==
    { <<"j","a","n">>, <<"f","e","b">>, <<"m","a","r">>, <<"a","p","r">>,
      <<"m","a","y">>, <<"j","u","n">>, <<"j","u","l">>, <<"a","u","g">>,
      <<"s","e","p">>, <<"o","c","t">>, <<"n","o","v">>, <<"d","e","c">> }

\* re.match of one of time_patterns
MatchesTimePattern(v) ==
    \/ DigitsAt(v, 1, 4) /\ AtEnd(v, 5)
    \/ DigitsAt(v, 1, 4) /\ SepAt(v, 5) /\ DigitsAt(v, 6, 2)
    \/ \E m \in MonthNames : StartsWith(StrLower(v), m)

\* What pd.to_datetime(x_values, format='mixed') is known to do: a column of
\* YYYY-MM-DD dates parses, a column holding a word that has no digit and is
\* no month name raises; for anything else the outcome is the library's.
IsIsoDate(v) ==
    /\ Len(v) = 10 /\ DigitsAt(v, 1, 4) /\ v[5] = "-" /\ DigitsAt(v, 6, 2)
    /\ v[8] = "-" /\ DigitsAt(v, 9, 2)

IsPlainWord(v) ==
    /\ v # <<>>
    /\ \A i \in DOMAIN v : IsAlpha(v[i])
    /\ ~\E m \in MonthNames : StartsWith(StrLower(v), m)
    /\ v \notin {<<"n","a","n">>, <<"N","o","n","e">>}

ToDatetimeOutcomes(x_values) ==
    IF x_values # <<>> /\ \A i \in DOMAIN x_values : IsIsoDate(x_values[i]) THEN {TRUE}
    ELSE IF \E i \in DOMAIN x_values : IsPlainWord(x_values[i]) THEN {FALSE}
    ELSE BOOLEAN

\* The cascade without the rule for more than 15 rows
detect_chart_type_no_line_rule(df, parses) ==
    IF DfEmpty(df) THEN "bar"
    ELSE IF Len(df.cols) = 1 /\ Len(NumCols(df)) = 1 THEN "histogram"
    ELSE IF Len(df.cols) >= 2 THEN
        LET x_values == AsTypeStr(df.cols[1])
            is_time  == \/ parses
                        \/ \A i \in DOMAIN SeqHead(x_values, 3) : MatchesTimePattern(x_values[i])
        IN  IF is_time THEN "line"
            ELSE IF df.nrows <= 6 /\ Len(NumCols(df)) >= 1 /\ Len(NonNumCols(df)) >= 1 THEN "pie"
            ELSE "bar"
    ELSE "bar"

\* The pie rule looking at the row count alone
detect_chart_type_pie_any(df, parses) ==
    IF DfEmpty(df) THEN "bar"
    ELSE IF Len(df.cols) = 1 /\ Len(NumCols(df)) = 1 THEN "histogram"
    ELSE IF Len(df.cols) >= 2 THEN
        LET x_values == AsTypeStr(df.cols[1])
            is_time  == \/ parses
                        \/ \A i \in DOMAIN SeqHead(x_values, 3) : MatchesTimePattern(x_values[i])
        IN  IF is_time THEN "line"
            ELSE IF df.nrows <= 6 THEN "pie"
            ELSE IF df.nrows > 15 THEN "line"
            ELSE "bar"
    ELSE "bar"

\* detect_chart_type(df); parses tells whether pd.to_datetime accepted the
\* first column
detect_chart_type(df, parses) ==
    IF DfEmpty(df) THEN "bar"
    ELSE IF Len(df.cols) = 1 /\ Len(NumCols(df)) = 1 THEN "histogram"
    ELSE IF Len(df.cols) >= 2 THEN
        LET x_values == AsTypeStr(df.cols[1])
            is_time  == \/ parses
                        \/ \A i \in DOMAIN SeqHead(x_values, 3) : MatchesTimePattern(x_values[i])
        IN  IF is_time THEN "line"
            ELSE IF df.nrows <= 6 /\ Len(NumCols(df)) >= 1 /\ Len(NonNumCols(df)) >= 1 THEN "pie"
            ELSE IF df.nrows > 15 THEN "line"
            ELSE "bar"
    ELSE "bar"

NoChart == [tag |-> "none", x |-> 0, ys |-> <<>>]

Chart(tag, x, ys) == [tag |-> tag, x |-> x, ys |-> ys]

ChartTags == {"bar", "line", "pie", "histogram", "scatter"}

\* The figure a chart type leads to, with no fallback to the bar chart
generate_chart_strict(df, chart_type, parses, renders) ==
    IF DfEmpty(df) THEN NoChart
    ELSE
        LET ct       == IF chart_type = "None" THEN detect_chart_type(df, parses) ELSE chart_type
            cols     == [i \in DOMAIN df.cols |-> i]
            num_cols == NumCols(df)
            fig ==
                IF ct = "histogram" /\ Len(num_cols) >= 1
                THEN Chart("histogram", num_cols[1], <<>>)
                ELSE IF ct = "pie" /\ Len(cols) >= 2
                THEN Chart("pie", cols[1], <<IF num_cols # <<>> THEN num_cols[1] ELSE cols[2]>>)
                ELSE IF ct = "line" /\ Len(cols) >= 2 /\ Len(num_cols) >= 1
                THEN Chart("line", cols[1], SeqHead(num_cols, 5))
                ELSE IF ct = "scatter" /\ Len(num_cols) >= 2
                THEN Chart("scatter", num_cols[1], <<num_cols[2]>>)
                ELSE IF ct = "bar" /\ Len(cols) >= 2
                THEN Chart("bar", cols[1],
                           SeqHead(IF num_cols # <<>> THEN num_cols ELSE <<cols[2]>>, 5))
                ELSE NoChart
        IN  IF renders THEN fig ELSE NoChart

\* generate_chart(df, chart_type): the figure that was rendered (its tag, its
\* x column and its y columns, as column positions), or NoChart for "".
\* chart_type "None" stands for the default argument; renders tells whether
\* plotly built and rendered the figure without raising.
generate_chart(df, chart_type, parses, renders) ==
    IF DfEmpty(df) THEN NoChart
    ELSE
        LET ct       == IF chart_type = "None" THEN detect_chart_type(df, parses) ELSE chart_type
            cols     == [i \in DOMAIN df.cols |-> i]
            num_cols == NumCols(df)
            fig ==
                IF ct = "histogram" /\ Len(num_cols) >= 1
                THEN Chart("histogram", num_cols[1], <<>>)
                ELSE IF ct = "pie" /\ Len(cols) >= 2
                THEN Chart("pie", cols[1], <<IF num_cols # <<>> THEN num_cols[1] ELSE cols[2]>>)
                ELSE IF ct = "line" /\ Len(cols) >= 2 /\ Len(num_cols) >= 1
                THEN Chart("line", cols[1], SeqHead(num_cols, 5))
                ELSE IF ct = "scatter" /\ Len(num_cols) >= 2
                THEN Chart("scatter", num_cols[1], <<num_cols[2]>>)
                ELSE IF Len(cols) >= 2
                THEN Chart("bar", cols[1],
                           SeqHead(IF num_cols # <<>> THEN num_cols ELSE <<cols[2]>>, 5))
                ELSE NoChart
        IN  IF renders THEN fig ELSE NoChart

(***************************************************************************)
(* Calls of detect_chart_type and generate_chart on bounded tables         *)
(***************************************************************************)
MaxRows == 20
MaxChartCols == 3

T_north == <<"n","o","r","t","h">>
T_q1    == <<"Q","1">>
T_jan   == <<"J","a","n">>
T_year  == <<"2","0","2","4">>
T_iso   == <<"2","0","2","4","-","0","1","-","1","5">>

N_x == <<"x">>
\* n cells: the first three are head, the others fill
HeadFill(head, fill, n) == [i \in 1..n |-> IF i <= 3 THEN head ELSE fill]

ChartFirstCols(n) ==
    {Col(N_x, FALSE, HeadFill(h, f, n)) : h, f \in {T_north, T_q1, T_jan, T_year, T_iso}}
    \cup {Col(N_x, TRUE, HeadFill(h, f, n)) : h, f \in {<<7>>, <<2024>>}}

ChartOtherCol(numeric, k, n) ==
    IF numeric THEN Col(<<"v">> \o NatStr(k), TRUE, [i \in 1..n |-> <<5 * i>>])
    ELSE Col(<<"t">> \o NatStr(k), FALSE, [i \in 1..n |-> T_north])

\* A DataFrame column is numeric only if it holds a number; all columns
\* have nrows cells
WellFormed(df) ==
    \A i \in DOMAIN df.cols :
        /\ Len(df.cols[i].vals) = df.nrows
        /\ df.cols[i].numeric => \E j \in DOMAIN df.cols[i].vals : ~IsNA(df.cols[i].vals[j])

\* The tables of n rows: a first column and up to MaxChartCols - 1 others
ChartTablesOf(n) ==
    {Table(n, <<x>> \o [k \in 1..Len(kinds) |-> ChartOtherCol(kinds[k], k, n)]) :
        x \in ChartFirstCols(n),
        kinds \in UNION {[1..k -> BOOLEAN] : k \in 0..(MaxChartCols - 1)}}

\* What pd.to_datetime may answer for the first column of df
ParseOutcomes(df) ==
    IF df.cols = <<>> THEN {FALSE} ELSE ToDatetimeOutcomes(AsTypeStr(df.cols[1]))

InitChart ==
    \E n \in 0..MaxRows :
        \E df \in {t \in ChartTablesOf(n) \cup {Table(0, <<>>)} : WellFormed(t)} :
            \E b \in ParseOutcomes(df) : CallInit([df |-> df, parses |-> b])

DetectChartTypeCall ==
    /\ pc = "call"
    /\ Return([fn |-> "detect_chart_type", chart_type |-> "None", renders |-> TRUE,
               out |-> detect_chart_type(arg.df, arg.parses)])

GenerateChartCall ==
    /\ pc = "call"
    /\ \E ct \in ChartTags \cup {"None"}, renders \in BOOLEAN :
           Return([fn |-> "generate_chart", chart_type |-> ct, renders |-> renders,
                   out |-> generate_chart(arg.df, ct, arg.parses, renders)])

NextChart == DetectChartTypeCall \/ GenerateChartCall

SpecChart == InitChart /\ [][NextChart]_vars

\* The first column is temporal: pd.to_datetime accepted it, or each of its
\* first three values matches a time pattern
Temporal(a) ==
    \/ a.parses
    \/ \A i \in 1..(IF a.df.nrows < 3 THEN a.df.nrows ELSE 3) :
           MatchesTimePattern(CellStr(a.df.cols[1], a.df.cols[1].vals[i]))

HasNumeric(df) == \E i \in DOMAIN df.cols : df.cols[i].numeric
HasNonNumeric(df) == \E i \in DOMAIN df.cols : ~df.cols[i].numeric

Detected == pc = "done" /\ ret.fn = "detect_chart_type"

\* C6: for a non-empty table of two or more columns detect_chart_type is a
\* first-match-wins cascade: line if the first column is temporal, else pie
\* if rows <= 6 with a numeric and a non-numeric column, else line if
\* rows > 15, else bar.
C6_Cascade ==
    (Detected /\ arg.df.nrows > 0 /\ Len(arg.df.cols) >= 2) =>
        /\ Temporal(arg) => ret.out = "line"
        /\ (~Temporal(arg) /\ arg.df.nrows <= 6 /\ HasNumeric(arg.df) /\ HasNonNumeric(arg.df))
               => ret.out = "pie"
        /\ (~Temporal(arg) /\ ~(arg.df.nrows <= 6 /\ HasNumeric(arg.df) /\ HasNonNumeric(arg.df))
               /\ arg.df.nrows > 15) => ret.out = "line"
        /\ (~Temporal(arg) /\ ~(arg.df.nrows <= 6 /\ HasNumeric(arg.df) /\ HasNonNumeric(arg.df))
               /\ arg.df.nrows <= 15) => ret.out = "bar"

\* C6 witness: a temporal first column wins over the pie rule it also meets.
C6_Witness ==
    /\ Detected /\ Len(arg.df.cols) >= 2 /\ arg.df.nrows \in 1..6
    /\ Temporal(arg) /\ HasNumeric(arg.df) /\ HasNonNumeric(arg.df)
    /\ ret.out = "line"

\* A two-column table of 20 rows, one text column and one numeric column
TwentyRowsTextAndNumber(df) ==
    /\ df.nrows = 20
    /\ Len(df.cols) = 2
    /\ df.cols[1].numeric # df.cols[2].numeric

TextColumnTemporal(a) ==
    IF a.df.cols[1].numeric
    THEN \A i \in 1..3 : MatchesTimePattern(a.df.cols[2].vals[i])
    ELSE Temporal(a)

\* C7 as stated: on a two-column table of 20 rows with one text and one
\* numeric column, detect_chart_type returns bar unless the text column is
\* temporal, and then line.
C7_BarUnlessTemporal ==
    (Detected /\ TwentyRowsTextAndNumber(arg.df)) =>
        ret.out = (IF TextColumnTemporal(arg) THEN "line" ELSE "bar")

\* C7 amended: on such a table detect_chart_type returns line whether or not
\* the text column is temporal (the row count exceeds 15).
C7_LineAt20Rows ==
    (Detected /\ TwentyRowsTextAndNumber(arg.df)) => ret.out = "line"

\* C7 witness: 20 rows, a text first column that is not temporal, a numeric
\* second column, and the answer is line.
C7_Witness ==
    /\ Detected /\ TwentyRowsTextAndNumber(arg.df)
    /\ ~arg.df.cols[1].numeric /\ ~Temporal(arg)
    /\ ret.out = "line"


Generated == pc = "done" /\ ret.fn = "generate_chart"

\* The chart tag generate_chart works with: the override, or the detected one
ResolvedTag == IF ret.chart_type = "None" THEN detect_chart_type(arg.df, arg.parses) ELSE ret.chart_type

NumericCount(df) == Cardinality({i \in DOMAIN df.cols : df.cols[i].numeric})

\* The minimum column requirements of a chart tag
MeetsRequirements(df, tag) ==
    CASE tag = "histogram" -> NumericCount(df) >= 1
      [] tag = "pie"       -> Len(df.cols) >= 2
      [] tag = "line"      -> Len(df.cols) >= 2 /\ NumericCount(df) >= 1
      [] tag = "bar"       -> Len(df.cols) >= 2
      [] tag = "scatter"   -> NumericCount(df) >= 2

\* C8 as stated: when the table does not meet the minimum column requirements
\* of the chart tag, generate_chart returns the no-chart result and builds no
\* chart of another tag.
C8_NoChartWhenUnmet ==
    (Generated /\ ~MeetsRequirements(arg.df, ResolvedTag)) => ret.out = NoChart

\* C8 amended: when the requirements of the tag are not met, generate_chart
\* never builds a chart of that tag; it returns the no-chart result if the
\* table is empty, has fewer than two columns or the rendering fails, and
\* otherwise it builds a bar chart over the first column instead.
C8_NoChartOrBarFallback ==
    (Generated /\ ~MeetsRequirements(arg.df, ResolvedTag)) =>
        IF arg.df.nrows = 0 \/ Len(arg.df.cols) < 2 \/ ~ret.renders
        THEN ret.out = NoChart
        ELSE ret.out.tag = "bar" /\ ret.out.x = 1

\* C8 witness: a histogram asked of two text columns came out as a bar chart.
C8_Witness ==
    /\ Generated /\ ret.chart_type = "histogram"
    /\ Len(arg.df.cols) = 2 /\ NumericCount(arg.df) = 0
    /\ ret.out.tag = "bar"

\* C12: when a line or bar chart is built and the first column (the x
\* column) is itself numeric, the x column is not among the y-series: the
\* y-series are the numeric columns other than the x column.
C12_XNotItsOwnSeries ==
    (Generated /\ ret.out.tag \in {"line", "bar"} /\ arg.df.cols[ret.out.x].numeric) =>
        /\ \A k \in DOMAIN ret.out.ys : ret.out.ys[k] # ret.out.x
        /\ ret.out.ys = SeqHead(SelectIdx([i \in DOMAIN arg.df.cols |-> i],
                                          {i \in DOMAIN arg.df.cols :
                                              arg.df.cols[i].numeric /\ i # ret.out.x}, 1), 5)

(***************************************************************************)
(* services/analysis.py                                                    *)
(*                                                                         *)
(* Means are kept as exact fractions sum/count and compared by cross       *)
(* multiplication; of the statistics of a column the model keeps min, max, *)
(* count and the sum the mean is made of.                                  *)
(***************************************************************************)
RECURSIVE SumCells(_)
SumCells(vals) == IF vals = <<>> THEN 0 ELSE Head(vals)[1] + SumCells(Tail(vals))

MinCells(vals) == CHOOSE m \in {vals[i][1] : i \in DOMAIN vals} : \A i \in DOMAIN vals : m <= vals[i][1]
MaxCells(vals) == CHOOSE m \in {vals[i][1] : i \in DOMAIN vals} : \A i \in DOMAIN vals : m >= vals[i][1]

RECURSIVE StatsOf(_, _)
StatsOf(df, num_cols) ==
    IF num_cols = <<>> THEN <<>>
    ELSE LET col    == df.cols[Head(num_cols)]
             series == DropNA(col.vals)
         IN  (IF Len(series) = 0 THEN <<>>
              ELSE << [col |-> col.name, min |-> MinCells(series), max |-> MaxCells(series),
                       sum |-> SumCells(series), count |-> Len(series)] >>)
             \o StatsOf(df, Tail(num_cols))

\* compute_stats(df): the entries of the dict in insertion order
compute_stats(df) == StatsOf(df, NumCols(df))

\* The trend of one column: second_half > first_half * 1.1, and so on, with
\* first_half = s1/n1 and second_half = s2/n2
TrendOf(name, series) ==
    LET mid == Len(series) \div 2
        n1  == mid
        n2  == Len(series) - mid
        s1  == SumCells(SubSeq(series, 1, mid))
        s2  == SumCells(SubSeq(series, mid + 1, Len(series)))
    IN  IF 10 * s2 * n1 > 11 * s1 * n2
        THEN [kind |-> "trend", col |-> name, dir |-> "upward", divisor |-> <<s1, n1>>]
        ELSE IF 10 * s2 * n1 < 9 * s1 * n2
        THEN [kind |-> "trend", col |-> name, dir |-> "downward", divisor |-> <<s1, n1>>]
        ELSE [kind |-> "trend", col |-> name, dir |-> "stable", divisor |-> <<1, 1>>]

RECURSIVE TrendsOf(_, _)
TrendsOf(df, num_cols) ==
    IF num_cols = <<>> THEN <<>>
    ELSE LET col    == df.cols[Head(num_cols)]
             series == DropNA(col.vals)
         IN  (IF Len(series) < 3 THEN <<>> ELSE <<TrendOf(col.name, series)>>)
             \o TrendsOf(df, Tail(num_cols))

\* detect_trends(df)
detect_trends(df) == TrendsOf(df, NumCols(df))

\* df.groupby(cat_col)[num_col].sum(): the sum per label, missing labels and
\* missing numbers left out
GroupLabels(cat) == {cat.vals[i] : i \in {j \in DOMAIN cat.vals : ~IsNA(cat.vals[j])}}

GroupSum(cat, num, label) ==
    SumCells(SelectIdx(num.vals, {i \in DOMAIN num.vals : cat.vals[i] = label /\ ~IsNA(num.vals[i])}, 1))

RECURSIVE SumOver(_, _, _)
SumOver(cat, num, labels) ==
    IF labels = {} THEN 0
    ELSE LET l == CHOOSE x \in labels : TRUE
         IN  GroupSum(cat, num, l) + SumOver(cat, num, labels \ {l})

\* Insight 1: the top contributor
TopContributor(df) ==
    IF NonNumCols(df) # <<>> /\ NumCols(df) # <<>>
    THEN LET cat    == df.cols[NonNumCols(df)[1]]
             num    == df.cols[NumCols(df)[1]]
             labels == GroupLabels(cat)
         IN  IF Cardinality(labels) > 1
             THEN LET top_val == CHOOSE v \in {GroupSum(cat, num, l) : l \in labels} :
                                     \A l \in labels : v >= GroupSum(cat, num, l)
                      total   == SumOver(cat, num, labels)
                  IN  << [kind |-> "top", cat_col |-> cat.name, num_col |-> num.name,
                          top_val |-> top_val, total |-> total,
                          pct |-> IF total > 0 THEN <<top_val * 100, total>> ELSE <<0, 1>>] >>
             ELSE <<>>
    ELSE <<>>

\* Insight 2: the range of the first column of stats
RangeInsight(stats) ==
    IF stats = <<>> THEN <<>>
    ELSE << [kind |-> "range", col |-> stats[1].col, min |-> stats[1].min,
             max |-> stats[1].max, range_val |-> stats[1].max - stats[1].min] >>

CountInsight(df) == [kind |-> "count", rows |-> df.nrows, cols |-> Len(df.cols)]

\* The insights without the early return on an empty table
generate_insights_no_early_return(df, stats) ==
    TopContributor(df) \o RangeInsight(stats) \o SeqHead(detect_trends(df), 2)
        \o <<CountInsight(df)>>

\* generate_insights(df, stats)
generate_insights(df, stats) ==
    IF DfEmpty(df) THEN <<>>
    ELSE TopContributor(df) \o RangeInsight(stats) \o SeqHead(detect_trends(df), 2)
             \o <<CountInsight(df)>>

(***************************************************************************)
(* Calls of compute_stats, detect_trends and generate_insights             *)
(***************************************************************************)
MaxInsightRows == 4

L_east == <<"e","a","s","t">>
L_west == <<"w","e","s","t">>

N_region == <<"r","e","g","i","o","n">>
N_sales  == <<"s","a","l","e","s">>
N_cost   == <<"c","o","s","t">>
N_units  == <<"u","n","i","t","s">>

\* The label column: one label, two labels, or a missing label first
RegionCols(n) ==
    { Col(N_region, FALSE, [i \in 1..n |-> L_east]),
      Col(N_region, FALSE, [i \in 1..n |-> IF i % 2 = 1 THEN L_east ELSE L_west]),
      Col(N_region, FALSE, [i \in 1..n |-> IF i = 1 THEN NA ELSE IF i = 2 THEN L_east ELSE L_west]) }

\* The first numeric column: any cells among -10, 0, 10 and missing
SalesCols(n) == {Col(N_sales, TRUE, v) : v \in [1..n -> {<<-10>>, <<0>>, <<10>>, NA}]}

CostCols(n) ==
    { Col(N_cost, TRUE, [i \in 1..n |-> <<5>>]),
      Col(N_cost, TRUE, [i \in 1..n |-> <<10 * i>>]) }

UnitsCols(n) == {Col(N_units, TRUE, [i \in 1..n |-> <<40 - 10 * i>>])}

Optional(S) == {<<>>} \cup {<<c>> : c \in S}

InsightTablesOf(n) ==
    {Table(n, r \o s \o c \o u) :
        r \in Optional(RegionCols(n)), s \in Optional(SalesCols(n)),
        c \in Optional(CostCols(n)), u \in Optional(UnitsCols(n))}

InitInsights ==
    \E n \in 0..MaxInsightRows :
        \E df \in {t \in InsightTablesOf(n) : WellFormed(t)} : CallInit(df)

ComputeStatsCall ==
    /\ pc = "call"
    /\ Return([fn |-> "compute_stats", out |-> compute_stats(arg)])

DetectTrendsCall ==
    /\ pc = "call"
    /\ Return([fn |-> "detect_trends", out |-> detect_trends(arg)])

\* main.py hands over result["stats"]: the statistics, or {} when
\* compute_stats raised
GenerateInsightsCall ==
    /\ pc = "call"
    /\ \E stats \in {compute_stats(arg), <<>>} :
           Return([fn |-> "generate_insights", out |-> generate_insights(arg, stats)])

NextInsights == ComputeStatsCall \/ DetectTrendsCall \/ GenerateInsightsCall

SpecInsights == InitInsights /\ [][NextInsights]_vars

Kinds(ins) == [i \in DOMAIN ins |-> ins[i].kind]

\* At most one top-contributor sentence, at most one range sentence, at most
\* two trend sentences, then exactly one count sentence
InsightShapes ==
    {a \o b \o c \o <<"count">> :
        a \in {<<>>, <<"top">>}, b \in {<<>>, <<"range">>},
        c \in {<<>>, <<"trend">>, <<"trend", "trend">>}}

InsightsDone == pc = "done" /\ ret.fn = "generate_insights"

\* C9 as stated: for every table, a table of zero rows included,
\* generate_insights returns at most one top-contributor sentence, at most
\* one range sentence, at most two trend sentences and exactly one count
\* sentence, in this order, the count sentence last and always present.
C9_CountAlwaysLast ==
    InsightsDone => Kinds(ret.out) \in InsightShapes

\* C9 amended: the same for every table with at least one row and one
\* column; for a table with no row or no column generate_insights returns the
\* empty sequence.
C9_CountLastUnlessEmpty ==
    InsightsDone =>
        IF arg.nrows = 0 \/ Len(arg.cols) = 0
        THEN ret.out = <<>>
        ELSE /\ Kinds(ret.out) \in InsightShapes
             /\ ret.out[Len(ret.out)] = [kind |-> "count", rows |-> arg.nrows, cols |-> Len(arg.cols)]

\* C9 witness: all of top, range, two trends and count were produced from a
\* table with three trending columns.
C9_Witness ==
    /\ InsightsDone
    /\ Len(detect_trends(arg)) = 3
    /\ Kinds(ret.out) = <<"top", "range", "trend", "trend", "count">>

TrendsDone == pc = "done" /\ ret.fn = "detect_trends"

\* A numeric column with at least three non-missing values, all equal
ConstantColumn(col) ==
    /\ col.numeric
    /\ Len(DropNA(col.vals)) >= 3
    /\ \A i, j \in DOMAIN col.vals :
           (~IsNA(col.vals[i]) /\ ~IsNA(col.vals[j])) => col.vals[i] = col.vals[j]

\* C10: every numeric column with at least three non-missing values that are
\* all equal (positive, zero or negative) is reported as relatively stable,
\* never as an upward or downward trend.
C10_ConstantIsStable ==
    TrendsDone =>
        \A i \in DOMAIN arg.cols :
            ConstantColumn(arg.cols[i]) =>
                \A k \in DOMAIN ret.out :
                    ret.out[k].col = arg.cols[i].name => ret.out[k].dir = "stable"

\* A numeric column with at least three non-missing values whose first
\* floor(n/2) non-missing values, in row order, have mean zero (sum zero)
ZeroFirstHalf(col) ==
    LET series == DropNA(col.vals)
    IN  /\ col.numeric
        /\ Len(series) >= 3
        /\ SumCells(SubSeq(series, 1, Len(series) \div 2)) = 0

\* C11: every numeric column with at least three non-missing values whose
\* first-half mean is zero is reported as relatively stable, and no
\* percentage is computed by dividing by the zero mean, whatever the
\* second-half mean is.
C11_ZeroMeanIsStable ==
    TrendsDone =>
        \A i \in DOMAIN arg.cols :
            ZeroFirstHalf(arg.cols[i]) =>
                \A k \in DOMAIN ret.out :
                    ret.out[k].col = arg.cols[i].name =>
                        /\ ret.out[k].dir = "stable"
                        /\ ret.out[k].divisor[1] # 0

(***************************************************************************)
(* services/prediction.py                                                  *)
(*                                                                         *)
(* The fitted line is kept in exact fractions: slope = SlopeNum/SlopeDen,  *)
(* prediction = PredNum/PredDen; predicted_value is round(., 2) counted in *)
(* hundredths.  The R2 score (confidence) is not modelled.                 *)
(***************************************************************************)
\* re.match of one of date_patterns
MatchesDatePattern(v) ==
    \/ DigitsAt(v, 1, 4) /\ SepAt(v, 5) /\ DigitsAt(v, 6, 2) /\ SepAt(v, 8) /\ DigitsAt(v, 9, 2)
    \/ DigitsAt(v, 1, 2) /\ SepAt(v, 3) /\ DigitsAt(v, 4, 2) /\ SepAt(v, 6) /\ DigitsAt(v, 7, 4)
    \/ DigitsAt(v, 1, 4) /\ SepAt(v, 5) /\ DigitsAt(v, 6, 2)
    \/ DigitsAt(v, 1, 4) /\ AtEnd(v, 5)

time_keywords ==
    << <<"d","a","t","e">>,
       <<"t","i","m","e">>,
       <<"y","e","a","r">>,
       <<"m","o","n","t","h">>,
       <<"d","a","y">>,
       <<"p","e","r","i","o","d">>,
       <<"q","u","a","r","t","e","r">> >>

\* df[col].dropna().head(10).astype(str)
Sample(col) ==
    LET kept == SeqHead(DropNA(col.vals), 10)
    IN  [i \in DOMAIN kept |-> CellStr(col, kept[i])]

\* matches >= len(sample) * 0.7
QualifiesByContent(col) ==
    LET sample  == Sample(col)
        matches == Cardinality({i \in DOMAIN sample : MatchesDatePattern(sample[i])})
    IN  10 * matches >= 7 * Len(sample)

QualifiesByName(col) ==
    \E k \in DOMAIN time_keywords : Contains(StrLower(col.name), time_keywords[k])

\* A detector that looks at the column names before the column contents
detect_time_column_name_first(df) ==
    IF \E i \in DOMAIN df.cols : QualifiesByName(df.cols[i])
    THEN CHOOSE i \in DOMAIN df.cols :
             /\ QualifiesByName(df.cols[i])
             /\ \A j \in 1..(i - 1) : ~QualifiesByName(df.cols[j])
    ELSE IF \E i \in DOMAIN df.cols : QualifiesByContent(df.cols[i])
    THEN CHOOSE i \in DOMAIN df.cols :
             /\ QualifiesByContent(df.cols[i])
             /\ \A j \in 1..(i - 1) : ~QualifiesByContent(df.cols[j])
    ELSE 0

\* detect_time_column(df): the position of the column, 0 for None
detect_time_column(df) ==
    IF \E i \in DOMAIN df.cols : QualifiesByContent(df.cols[i])
    THEN CHOOSE i \in DOMAIN df.cols :
             /\ QualifiesByContent(df.cols[i])
             /\ \A j \in 1..(i - 1) : ~QualifiesByContent(df.cols[j])
    ELSE IF \E i \in DOMAIN df.cols : QualifiesByName(df.cols[i])
    THEN CHOOSE i \in DOMAIN df.cols :
             /\ QualifiesByName(df.cols[i])
             /\ \A j \in 1..(i - 1) : ~QualifiesByName(df.cols[j])
    ELSE 0

MentionedIn(col, q) ==
    LET question_lower == StrLower(q)
    IN  \/ Contains(question_lower, StrLower(StrReplace(col.name, "_", " ")))
        \/ Contains(question_lower, StrLower(col.name))

\* detect_target_column(df, question): the position of the column, 0 for None
detect_target_column(df, q) ==
    LET numeric_cols == NumCols(df)
    IN  IF numeric_cols = <<>> THEN 0
        ELSE IF \E k \in DOMAIN numeric_cols : MentionedIn(df.cols[numeric_cols[k]], q)
        THEN numeric_cols[CHOOSE k \in DOMAIN numeric_cols :
                 /\ MentionedIn(df.cols[numeric_cols[k]], q)
                 /\ \A j \in 1..(k - 1) : ~MentionedIn(df.cols[numeric_cols[j]], q)]
        ELSE numeric_cols[1]

ERR_NO_TIME    == "No time/date column detected. Prediction requires time-series data."
ERR_NO_NUMERIC == "No numeric column found to predict."
ERR_NOT_ENOUGH == "Not enough data points for prediction (need at least 3)."
\* the reason caught by the except clause, whatever its text
ERR_FAILED     == "Prediction failed: "

ForecastError(e) ==
    [error |-> e, predicted_value |-> <<>>, target |-> <<>>, trend |-> "",
     slope |-> <<0, 1>>, n |-> 0]

\* the integer nearest to num/den (den > 0)
RoundDiv(num, den) == (2 * num + den) \div (2 * den)

\* sum of i * y[i] over the index 0..n-1
RECURSIVE SumIdxCells(_, _)
SumIdxCells(y, i) == IF y = <<>> THEN 0 ELSE i * Head(y)[1] + SumIdxCells(Tail(y), i + 1)

\* LinearRegression().fit(arange(n), y), the prediction at index n and the
\* dict predict returns
Fit(target_name, y) ==
    LET n        == Len(y)
        Sx       == (n * (n - 1)) \div 2
        Sxx      == ((n - 1) * n * (2 * n - 1)) \div 6
        Sy       == SumCells(y)
        Sxy      == SumIdxCells(y, 0)
        SlopeNum == n * Sxy - Sx * Sy
        SlopeDen == n * Sxx - Sx * Sx
        PredNum  == Sy * SlopeDen - SlopeNum * Sx + SlopeNum * n * n
        PredDen  == n * SlopeDen
    IN  [error |-> "", predicted_value |-> <<RoundDiv(100 * PredNum, PredDen)>>,
         target |-> target_name,
         trend |-> IF SlopeNum > 0 THEN "upward" ELSE IF SlopeNum < 0 THEN "downward" ELSE "stable",
         slope |-> <<SlopeNum, SlopeDen>>, n |-> n]

\* df[[time_col, target_col]].dropna()[target_col]
PairedTarget(df, time_col, target_col) ==
    SelectIdx(df.cols[target_col].vals,
              {i \in 1..df.nrows : ~IsNA(df.cols[time_col].vals[i]) /\ ~IsNA(df.cols[target_col].vals[i])}, 1)

\* A forecaster that counts the rows before it looks for the columns
predict_rows_first(df, q) ==
    IF df.nrows < 3 THEN ForecastError(ERR_NOT_ENOUGH)
    ELSE
    LET time_col   == detect_time_column(df)
        target_col == detect_target_column(df, q)
    IN  IF time_col = 0 THEN ForecastError(ERR_NO_TIME)
        ELSE IF target_col = 0 THEN ForecastError(ERR_NO_NUMERIC)
        ELSE LET y == PairedTarget(df, time_col, target_col)
             IN  IF Len(y) < 3 THEN ForecastError(ERR_NOT_ENOUGH)
                 \* df[[c, c]][c] is a two-column frame: float() of the
                 \* two predictions raises TypeError
                 ELSE IF time_col = target_col THEN ForecastError(ERR_FAILED)
                 ELSE Fit(df.cols[target_col].name, y)

\* predict(df, question)
predict(df, q) ==
    LET time_col   == detect_time_column(df)
        target_col == detect_target_column(df, q)
    IN  IF time_col = 0 THEN ForecastError(ERR_NO_TIME)
        ELSE IF target_col = 0 THEN ForecastError(ERR_NO_NUMERIC)
        ELSE LET y == PairedTarget(df, time_col, target_col)
             IN  IF Len(y) < 3 THEN ForecastError(ERR_NOT_ENOUGH)
                 \* df[[c, c]][c] is a two-column frame: float() of the
                 \* two predictions raises TypeError
                 ELSE IF time_col = target_col THEN ForecastError(ERR_FAILED)
                 ELSE Fit(df.cols[target_col].name, y)

\* pred["message"]
ForecastMessage(pred) ==
    [kind |-> "forecast", target |-> pred.target, predicted_value |-> pred.predicted_value[1],
     trend |-> pred.trend]

(***************************************************************************)
(* Calls of predict on bounded tables                                      *)
(***************************************************************************)
MaxForecastRows == 4

N_order_date == <<"o","r","d","e","r","_","d","a","t","e">>
N_label      == <<"l","a","b","e","l">>
N_year       == <<"y","e","a","r">>

Q_predict_sales == <<"P","r","e","d","i","c","t"," ","s","a","l","e","s">>
Q_forecast_year == <<"f","o","r","e","c","a","s","t"," ","t","h","e"," ","y","e","a","r"," ","t","o","t","a","l">>
Q_show_sales    == <<"s","h","o","w"," ","s","a","l","e","s"," ","b","y"," ","r","e","g","i","o","n">>

Questions == {Q_predict_sales, Q_forecast_year, Q_show_sales}

IsoDay(i) == <<"2","0","2","4","-","0","1","-","0">> \o NatStr(i)

\* A text column: dates under a plain name, words under a time-like name,
\* words under a plain name, dates with a word and a missing cell, or
\* nothing but missing cells
TextCols(n) ==
    { Col(N_label, FALSE, [i \in 1..n |-> IsoDay(i)]),
      Col(N_order_date, FALSE, [i \in 1..n |-> L_east]),
      Col(N_region, FALSE, [i \in 1..n |-> IF i % 2 = 1 THEN L_east ELSE L_west]),
      Col(N_label, FALSE, [i \in 1..n |-> IF i = 1 THEN L_east ELSE IF i = 2 THEN NA ELSE IsoDay(i)]),
      Col(N_label, FALSE, [i \in 1..n |-> NA]) }

\* The target column: any cells among 0, 10 and missing, or 10, 20, 30, ...
TargetCols(n) ==
    {Col(N_sales, TRUE, v) : v \in [1..n -> {<<0>>, <<10>>, NA}]}
    \cup {Col(N_sales, TRUE, [i \in 1..n |-> <<10 * i>>])}

\* A column of years, and a plain counter
YearCols(n) ==
    { Col(N_year, TRUE, [i \in 1..n |-> <<2020 + i>>]),
      Col(N_units, TRUE, [i \in 1..n |-> <<40 - 10 * i>>]) }

ForecastTablesOf(n) ==
    UNION {{Table(n, t \o s \o y), Table(n, y \o s \o t)} :
        t \in Optional(TextCols(n)), s \in Optional(TargetCols(n)), y \in Optional(YearCols(n))}

\* Tables with more rows than the sample of detect_time_column holds: a
\* text column of k dates followed by words, or led by a missing cell, and
\* a column of words named order_date on either side or absent
MaxLongRows == 12

LongTextCols(n) ==
    {Col(N_label, FALSE, [i \in 1..n |-> IF i <= k THEN IsoDay(i) ELSE L_east]) : k \in 0..n}
    \cup {Col(N_label, FALSE, [i \in 1..n |-> IF i = 1 THEN NA ELSE IF i <= k THEN IsoDay(i) ELSE L_east]) :
              k \in 1..n}

LongTablesOf(n) ==
    UNION {{Table(n, <<t>> \o d), Table(n, d \o <<t>>)} :
        t \in LongTextCols(n),
        d \in Optional({Col(N_order_date, FALSE, [i \in 1..n |-> L_east])})}

InitForecast ==
    \/ \E n \in 0..MaxForecastRows :
           \E df \in {t \in ForecastTablesOf(n) : WellFormed(t)}, q \in Questions :
               CallInit([df |-> df, question |-> q])
    \/ \E df \in LongTablesOf(MaxLongRows), q \in Questions :
           CallInit([df |-> df, question |-> q])

DetectTimeColumnCall ==
    /\ pc = "call"
    /\ Return([fn |-> "detect_time_column", out |-> detect_time_column(arg.df)])

PredictCall ==
    /\ pc = "call"
    /\ Return([fn |-> "predict", out |-> predict(arg.df, arg.question)])

NextForecast == DetectTimeColumnCall \/ PredictCall

SpecForecast == InitForecast /\ [][NextForecast]_vars

Predicted == pc = "done" /\ ret.fn = "predict"

\* C5 as stated: a table with fewer than 3 rows always gets the "insufficient
\* data" failure, whatever its columns hold.
C5_AlwaysInsufficientData ==
    (Predicted /\ arg.df.nrows < 3) => ret.out.error = ERR_NOT_ENOUGH

\* C5 amended: a table with fewer than 3 rows always gets a failure and never
\* a forecast: "no time column" when no time column is detected, otherwise
\* "no numeric column" when it has no numeric column, otherwise
\* "insufficient data".
C5_FailureByCascade ==
    (Predicted /\ arg.df.nrows < 3) =>
        /\ ret.out.predicted_value = <<>>
        /\ ret.out.error =
               (IF ~\E i \in DOMAIN arg.df.cols :
                       QualifiesByContent(arg.df.cols[i]) \/ QualifiesByName(arg.df.cols[i])
                THEN ERR_NO_TIME
                ELSE IF ~HasNumeric(arg.df) THEN ERR_NO_NUMERIC
                ELSE ERR_NOT_ENOUGH)

\* C5 witness: a two-row table with a time column and a numeric column got
\* the "insufficient data" failure.
C5_Witness ==
    /\ Predicted /\ arg.df.nrows = 2
    /\ HasNumeric(arg.df)
    /\ ret.out.error = ERR_NOT_ENOUGH

TimeColumnDetected == pc = "done" /\ ret.fn = "detect_time_column"

\* Of the first (up to) 10 non-missing values of the column, written as
\* text, at least 70% match a date-like pattern
SeventyPercentDateLike(col) ==
    LET present == {i \in DOMAIN col.vals : ~IsNA(col.vals[i])}
        first10 == {i \in present : Cardinality({j \in present : j < i}) < 10}
        hits    == {i \in first10 : MatchesDatePattern(CellStr(col, col.vals[i]))}
    IN  100 * Cardinality(hits) >= 70 * Cardinality(first10)

NameHasTimeWord(col) ==
    \E k \in DOMAIN time_keywords : Contains(StrLower(col.name), time_keywords[k])

\* C13: detect_time_column returns the first column, in declared order,
\* whose sample of up to the first 10 non-missing values has at least 70% of
\* its values matching a date-like pattern; only when no column qualifies by
\* content, the first column whose name contains one of the time words in
\* any letter case; otherwise none.  A column that qualifies by content wins
\* over a column declared earlier that only has a time word in its name.
C13_ContentBeforeName ==
    TimeColumnDetected =>
        LET cols    == arg.df.cols
            content == {i \in DOMAIN cols : SeventyPercentDateLike(cols[i])}
            named   == {i \in DOMAIN cols : NameHasTimeWord(cols[i])}
        IN  /\ content # {} =>
                /\ ret.out \in content
                /\ \A j \in content : ret.out <= j
            /\ (content = {} /\ named # {}) =>
                /\ ret.out \in named
                /\ \A j \in named : ret.out <= j
            /\ (content = {} /\ named = {}) => ret.out = 0

\* C13 witness: the year column, declared third, was returned although the
\* first column is named order_date (and holds no dates).
C13_Witness ==
    /\ TimeColumnDetected
    /\ Len(arg.df.cols) = 3
    /\ NameHasTimeWord(arg.df.cols[1]) /\ ~SeventyPercentDateLike(arg.df.cols[1])
    /\ ~SeventyPercentDateLike(arg.df.cols[2])
    /\ SeventyPercentDateLike(arg.df.cols[3])
    /\ ret.out = 3

\* C13 sample: a column of more than 10 values qualified by 7 dates among
\* its first 10 non-missing values, although fewer than 70% of all its
\* values are dates.
C13_SampleWitness ==
    /\ TimeColumnDetected
    /\ arg.df.nrows > 10
    /\ ret.out = 1
    /\ ~NameHasTimeWord(arg.df.cols[1])
    /\ LET vals == arg.df.cols[1].vals
           hits == {i \in DOMAIN vals : ~IsNA(vals[i]) /\ MatchesDatePattern(vals[i])}
       IN  100 * Cardinality(hits) < 70 * Cardinality({i \in DOMAIN vals : ~IsNA(vals[i])})

\* The series predict pairs up: the target values of the rows where neither
\* the detected time column nor the detected target column is missing;
\* <<>> when one of the columns is not detected
PairedSeries ==
    LET t == detect_time_column(arg.df)
        g == detect_target_column(arg.df, arg.question)
    IN  IF t = 0 \/ g = 0 THEN <<>> ELSE PairedTarget(arg.df, t, g)

\* The result reports the least-squares line of y against the index
\* 0..n-1: its slope b = out.slope[1]/out.slope[2] satisfies the normal
\* equations with the intercept a = (Sy - b*Sx)/n, the predicted value is
\* a + b*n rounded to hundredths, and the trend is the sign of b
IsLeastSquaresForecast(out, y) ==
    LET n   == Len(y)
        Sx  == SumIdxCells([i \in 1..n |-> <<1>>], 0)
        Sxx == SumIdxCells([i \in 1..n |-> <<i - 1>>], 0)
        Sy  == SumCells(y)
        Sxy == SumIdxCells(y, 0)
        num == out.slope[1]
        den == out.slope[2]
        \* n*den*(a + b*n)
        atN == Sy * den - num * Sx + num * n * n
        pv  == out.predicted_value[1]
    IN  /\ out.error = ""
        /\ den > 0
        /\ n * den * Sxy = (Sy * den - num * Sx) * Sx + num * n * Sxx
        /\ out.predicted_value # <<>>
        /\ 2 * (pv * n * den - 100 * atN) <= n * den
        /\ 2 * (100 * atN - pv * n * den) <= n * den
        /\ out.trend = (IF num > 0 THEN "upward" ELSE IF num < 0 THEN "downward" ELSE "stable")

\* C14: for every paired series of n >= 3 observed values, predict fits the
\* least-squares line against the index 0..n-1, reports the line's value at
\* index n as the prediction and tags the trend upward for a positive
\* slope, downward for a negative one and stable only for slope zero; for
\* y = [10, 20, 30, 40] the slope is 10, the prediction 50 and the trend
\* upward.
C14_FitsEveryPairedSeries ==
    (Predicted /\ Len(PairedSeries) >= 3) =>
        /\ IsLeastSquaresForecast(ret.out, PairedSeries)
        /\ PairedSeries = <<<<10>>, <<20>>, <<30>>, <<40>>>> =>
               /\ ret.out.slope[1] = 10 * ret.out.slope[2]
               /\ ret.out.predicted_value = <<5000>>
               /\ ret.out.trend = "upward"

\* The same holds whenever the detected time column and the detected target
\* column are two columns; when they are one column predict reports a
\* failed prediction.
FitsWhenColumnsDiffer ==
    (Predicted /\ Len(PairedSeries) >= 3) =>
        IF detect_time_column(arg.df) = detect_target_column(arg.df, arg.question)
        THEN ret.out.error = ERR_FAILED /\ ret.out.predicted_value = <<>>
        ELSE /\ IsLeastSquaresForecast(ret.out, PairedSeries)
             /\ PairedSeries = <<<<10>>, <<20>>, <<30>>, <<40>>>> =>
                    /\ ret.out.slope[1] = 10 * ret.out.slope[2]
                    /\ ret.out.predicted_value = <<5000>>
                    /\ ret.out.trend = "upward"

\* The series 10, 20, 30, 40 was forecast
ForecastOfTenToForty ==
    /\ Predicted
    /\ PairedSeries = <<<<10>>, <<20>>, <<30>>, <<40>>>>
    /\ ret.out.error = ""

(***************************************************************************)
(* main.py: the /analyze request handler, step by step                     *)
(***************************************************************************)
prediction_keywords ==
    << <<"p","r","e","d","i","c","t">>,
       <<"f","o","r","e","c","a","s","t">>,
       <<"n","e","x","t"," ","m","o","n","t","h">>,
       <<"n","e","x","t"," ","q","u","a","r","t","e","r">>,
       <<"n","e","x","t"," ","y","e","a","r">>,
       <<"f","u","t","u","r","e">>,
       <<"e","s","t","i","m","a","t","e">> >>

\* any(kw in question.lower() for kw in prediction_keywords)
PredictionRequested(q) ==
    \E k \in DOMAIN prediction_keywords : Contains(StrLower(q), prediction_keywords[k])

\* The table "data" behind db_path
DateSales(sales) ==
    Table(Len(sales), << Col(N_label, FALSE, [i \in DOMAIN sales |-> IsoDay(i)]),
                         Col(N_sales, TRUE, sales) >>)

Datasets ==
    { DateSales(<< <<10>>, <<20>>, <<30>>, <<40>> >>),
      DateSales(<< <<0>>, <<0>>, <<0>> >>),
      DateSales(<< <<30>>, <<20>>, <<10>> >>),
      DateSales(<< <<10>>, <<20>> >>),
      Table(3, << Col(N_region, FALSE, <<L_east, L_west, L_east>>),
                  Col(N_sales, TRUE, << <<10>>, <<20>>, <<60>> >>) >>),
      Table(3, << Col(N_year, TRUE, << <<2021>>, <<2022>>, <<2023>> >>),
                  Col(N_sales, TRUE, << <<10>>, <<20>>, <<60>> >>) >>) }

\* What the language model may answer
SQL_select_all  == <<"S","E","L","E","C","T"," ","*"," ","F","R","O","M"," ","d","a","t","a">>
SQL_created_at  == <<"s","e","l","e","c","t"," ","c","r","e","a","t","e","d","_","a","t"," ","f","r","o","m"," ","d","a","t","a">>
SQL_drop        == <<"D","R","O","P"," ","T","A","B","L","E"," ","d","a","t","a">>
SQL_then_delete == <<"s","e","l","e","c","t"," ","1",";"," ","d","e","l","e","t","e"," ","f","r","o","m"," ","d","a","t","a">>

PipelineQueries == {SQL_select_all, SQL_created_at, SQL_drop, SQL_then_delete}

\* What sqlite may return for a query
ResultTables ==
    { Table(0, <<>>),
      Table(2, << Col(N_region, FALSE, <<L_east, L_west>>),
                  Col(N_sales, TRUE, << <<10>>, <<30>> >>) >>),
      Table(3, << Col(N_sales, TRUE, << <<-10>>, <<-10>>, <<-10>> >>) >>),
      DateSales(<< <<40>>, <<30>>, <<20>>, <<10>> >>) }

\* sqlite's part in execute_query: it raises, or it returns rows
SqliteOutcomes == {[raises |-> TRUE, rows |-> Table(0, <<>>)]}
                  \cup {[raises |-> FALSE, rows |-> t] : t \in ResultTables}

\* An executor that trusts its caller to have validated the query
execute_query_unchecked(sql, sqlite) ==
    [ran |-> TRUE, raised |-> sqlite.raises, rows |-> sqlite.rows]

\* execute_query(db_path, sql): whether conn.execute(sql) ran, whether
\* ValueError was raised, and the rows returned
execute_query(sql, sqlite) ==
    IF ~validate_sql(sql)
    THEN [ran |-> FALSE, raised |-> TRUE, rows |-> Table(0, <<>>)]
    ELSE [ran |-> TRUE, raised |-> sqlite.raises, rows |-> sqlite.rows]

NoPrediction == ForecastError("")

\* No direct call of execute_query yet
NoCall == [fn |-> "none", sql |-> <<>>, calls |-> 0,
           out |-> [ran |-> FALSE, raised |-> FALSE, rows |-> Table(0, <<>>)]]

ERR_READ_SQL == "read_sql"

InitialResult ==
    [sql_query |-> <<>>, table_result |-> Table(0, <<>>), chart_base64 |-> NoChart,
     stats |-> <<>>, insights |-> <<>>, prediction |-> NoPrediction]

MaxDirectCalls == 2

\* A run is one /analyze request, or a caller using execute_query directly
Init ==
    /\ \/ pc = "nl_to_sql" /\ question \in Questions
       \/ pc = "direct" /\ question = <<>>
    /\ db \in Datasets
    /\ result = InitialResult
    /\ status = "running"
    /\ executed = {}
    /\ log = <<>>
    /\ arg = NoValue
    /\ ret = NoCall

\* The request fails with an HTTPException
Fail(code, event) ==
    /\ pc' = "done"
    /\ status' = code
    /\ log' = Append(log, event)

\* Step 1: nl_to_sql answers with a query, or raises ValueError
NlToSqlStep ==
    /\ pc = "nl_to_sql"
    /\ \/ /\ Fail(400, "nl_to_sql:raise")
          /\ UNCHANGED result
       \/ \E sql \in PipelineQueries :
              /\ result' = [result EXCEPT !.sql_query = sql]
              /\ pc' = "validate_sql"
              /\ log' = Append(log, "nl_to_sql")
              /\ UNCHANGED status
    /\ UNCHANGED <<question, db, executed, arg, ret>>

\* Step 2, first half: validate_sql(sql_query)
ValidateStep ==
    /\ pc = "validate_sql"
    /\ IF ~validate_sql(result.sql_query)
       THEN Fail(400, "validate_sql:reject")
       ELSE /\ pc' = "execute_query"
            /\ log' = Append(log, "validate_sql")
            /\ UNCHANGED status
    /\ UNCHANGED <<question, db, result, executed, arg, ret>>

\* Step 2, second half: execute_query(db_path, sql_query)
ExecuteStep ==
    /\ pc = "execute_query"
    /\ \E sqlite \in SqliteOutcomes :
           LET r == execute_query(result.sql_query, sqlite)
           IN  /\ executed' = IF r.ran THEN executed \cup {result.sql_query} ELSE executed
               /\ IF r.raised
                  THEN Fail(400, "execute_query:raise") /\ UNCHANGED result
                  ELSE /\ result' = [result EXCEPT !.table_result = r.rows]
                       /\ pc' = IF r.rows.nrows > 0 THEN "generate_chart" ELSE "predict"
                       /\ log' = Append(log, "execute_query")
                       /\ UNCHANGED status
    /\ UNCHANGED <<question, db, arg, ret>>

\* A chart step that lets the failure out of the handler
GenerateChartStepPropagates ==
    /\ pc = "generate_chart"
    /\ \/ /\ Fail(500, "generate_chart:raise")
          /\ UNCHANGED result
       \/ \E parses \in ParseOutcomes(result.table_result), renders \in BOOLEAN :
              /\ result' = [result EXCEPT !.chart_base64 =
                                generate_chart(result.table_result, "None", parses, renders)]
              /\ pc' = "compute_stats"
              /\ log' = Append(log, "generate_chart")
              /\ UNCHANGED status
    /\ UNCHANGED <<question, db, executed, arg, ret>>

\* Step 3: generate_chart(df) returns, or raises and is caught
GenerateChartStep ==
    /\ pc = "generate_chart"
    /\ \/ /\ log' = Append(log, "generate_chart:raise")
          /\ UNCHANGED result
       \/ \E parses \in ParseOutcomes(result.table_result), renders \in BOOLEAN :
              /\ result' = [result EXCEPT !.chart_base64 =
                                generate_chart(result.table_result, "None", parses, renders)]
              /\ log' = Append(log, "generate_chart")
    /\ pc' = "compute_stats"
    /\ UNCHANGED <<question, db, status, executed, arg, ret>>

\* Step 4: compute_stats(df) returns, or raises and is caught
ComputeStatsStep ==
    /\ pc = "compute_stats"
    /\ \/ /\ log' = Append(log, "compute_stats:raise")
          /\ UNCHANGED result
       \/ /\ result' = [result EXCEPT !.stats = compute_stats(result.table_result)]
          /\ log' = Append(log, "compute_stats")
    /\ pc' = "generate_insights"
    /\ UNCHANGED <<question, db, status, executed, arg, ret>>

\* Step 5: generate_insights(df, result["stats"]) returns, or raises and is
\* caught
GenerateInsightsStep ==
    /\ pc = "generate_insights"
    /\ \/ /\ log' = Append(log, "generate_insights:raise")
          /\ UNCHANGED result
       \/ /\ result' = [result EXCEPT !.insights =
                            generate_insights(result.table_result, result.stats)]
          /\ log' = Append(log, "generate_insights")
    /\ pc' = "predict"
    /\ UNCHANGED <<question, db, status, executed, arg, ret>>

\* bool(pred.get("predicted_value")): None and 0.0 are false
Truthy(predicted_value) == predicted_value # <<>> /\ predicted_value[1] # 0

\* The result after predict returned pred
WithPrediction(res, pred) ==
    [res EXCEPT !.prediction = pred,
                !.insights = IF Truthy(pred.predicted_value)
                             THEN Append(@, ForecastMessage(pred)) ELSE @]

\* Step 6: when the question asks for it, predict(full_df, question) on the
\* whole table "data"; pd.read_sql may raise, which is caught
PredictStep ==
    /\ pc = "predict"
    /\ IF PredictionRequested(question)
       THEN \/ /\ result' = [result EXCEPT !.prediction = ForecastError(ERR_READ_SQL)]
               /\ log' = Append(log, "predict:raise")
            \/ /\ result' = WithPrediction(result, predict(db, question))
               /\ log' = Append(log, "predict")
       ELSE UNCHANGED <<result, log>>
    /\ pc' = "return"
    /\ UNCHANGED <<question, db, status, executed, arg, ret>>

\* return result
ReturnStep ==
    /\ pc = "return"
    /\ pc' = "done"
    /\ status' = 200
    /\ UNCHANGED <<question, db, result, executed, log, arg, ret>>

\* execute_query(db_path, sql) called directly with any query string
ExecuteQueryDirect ==
    /\ pc = "direct"
    /\ ret.calls < MaxDirectCalls
    /\ \E sql \in PipelineQueries, sqlite \in SqliteOutcomes :
           LET r == execute_query(sql, sqlite)
           IN  /\ executed' = IF r.ran THEN executed \cup {sql} ELSE executed
               /\ ret' = [fn |-> "execute_query", sql |-> sql, calls |-> ret.calls + 1, out |-> r]
    /\ UNCHANGED <<pc, question, db, result, status, log, arg>>

Next ==
    \/ NlToSqlStep
    \/ ValidateStep
    \/ ExecuteStep
    \/ GenerateChartStep
    \/ ComputeStatsStep
    \/ GenerateInsightsStep
    \/ PredictStep
    \/ ReturnStep
    \/ ExecuteQueryDirect

Spec == Init /\ [][Next]_vars

\* C1: conn.execute only ever runs a query string for which validate_sql
\* returns safe, through analyze_data and through a direct call alike, and
\* analyze_data calls execute_query only with the string it has validated.
C1_ExecutedOnlyIfSafe ==
    /\ \A q \in executed : validate_sql(q)
    /\ pc = "execute_query" => validate_sql(result.sql_query)
    /\ (pc \notin {"nl_to_sql", "direct"} /\ executed # {}) => executed = {result.sql_query}

\* C1 witness: a direct call with an unsafe query was refused after a direct
\* call with a safe query had run.
C1_Witness ==
    /\ pc = "direct"
    /\ executed # {}
    /\ ret.fn = "execute_query" /\ ~validate_sql(ret.sql)
    /\ ~ret.out.ran /\ ret.out.raised

Last(s) == s[Len(s)]

\* The step names of a log, a caught failure counted as the step having run
StepOf(e) ==
    CASE e = "generate_chart:raise"    -> "generate_chart"
      [] e = "compute_stats:raise"     -> "compute_stats"
      [] e = "generate_insights:raise" -> "generate_insights"
      [] e = "predict:raise"           -> "predict"
      [] OTHER                         -> e

Steps == [i \in DOMAIN log |-> StepOf(log[i])]

\* The steps a request runs once the query returned rows
StepsAfterQuery ==
    (IF result.table_result.nrows > 0
     THEN <<"generate_chart", "compute_stats", "generate_insights">> ELSE <<>>)
    \o (IF PredictionRequested(question) THEN <<"predict">> ELSE <<>>)

\* A failure inside a step is absorbed: the step's output stays empty, every
\* later step runs and the request returns a result
FailuresAbsorbed ==
    (pc = "done" /\ \E i \in DOMAIN log : log[i] = "execute_query") =>
        /\ status = 200
        /\ Steps = <<"nl_to_sql", "validate_sql", "execute_query">> \o StepsAfterQuery
        /\ (\E i \in DOMAIN log : log[i] = "generate_chart:raise") => result.chart_base64 = NoChart
        /\ (\E i \in DOMAIN log : log[i] = "compute_stats:raise") => result.stats = <<>>
        /\ (\E i \in DOMAIN log : log[i] = "generate_insights:raise") =>
               \A k \in DOMAIN result.insights : result.insights[k].kind = "forecast"
        /\ (\E i \in DOMAIN log : log[i] = "predict:raise") =>
               result.prediction = ForecastError(ERR_READ_SQL)

RequestFailed == pc = "done" /\ status # 200

\* C3 as stated: the request fails only when the classifier rejects the query
\* or the query executor raises; a failure inside the chart, statistics,
\* insight or forecast step is absorbed.
C3_OnlyTwoFatalEvents ==
    /\ RequestFailed => Last(log) \in {"validate_sql:reject", "execute_query:raise"}
    /\ FailuresAbsorbed

\* C3 amended: the request fails only when the translator (nl_to_sql) raises,
\* the classifier rejects the query or the query executor raises; a failure
\* inside the chart, statistics, insight or forecast step is absorbed.
C3_OnlyThreeFatalEvents ==
    /\ RequestFailed =>
           Last(log) \in {"nl_to_sql:raise", "validate_sql:reject", "execute_query:raise"}
    /\ FailuresAbsorbed

\* C3 witness: chart, statistics, insights and forecast all failed, and the
\* request returned its result.
C3_Witness ==
    /\ pc = "done" /\ status = 200
    /\ Steps = <<"nl_to_sql", "validate_sql", "execute_query", "generate_chart",
                 "compute_stats", "generate_insights", "predict">>
    /\ \A i \in 4..7 : log[i] # Steps[i]

\* C4: when the question asks for a forecast and predict returns a forecast,
\* the forecast's message is the last element of the insights, whatever the
\* predicted value (0 included), and the forecast is the one of the whole
\* table "data", not of the rows the query returned.
C4_ForecastMessageAppended ==
    (pc = "done" /\ status = 200 /\ PredictionRequested(question)
        /\ result.prediction.predicted_value # <<>>) =>
        /\ result.prediction = predict(db, question)
        /\ result.insights # <<>>
        /\ Last(result.insights) = ForecastMessage(result.prediction)

====
